---- MODULE Spec2Model ----
(***************************************************************************)
(* Model of pc_build_validator.py: main() reads a budget, P component rows *)
(* and K kit rows from stdin, builds the inventory, evaluates every kit in *)
(* input order and prints the best score and the best kit.                 *)
(*                                                                         *)
(* A token is a sequence of characters, a line is a sequence of tokens     *)
(* (what str.split() returns), the input is a sequence of lines.  An ASCII *)
(* character is the one-character string, any other character is the       *)
(* string of its code point, "U+0665".                                     *)
(***************************************************************************)
EXTENDS Integers, Sequences, FiniteSets, TLC

VARIABLES
    stdin,       \* the lines of sys.stdin, already stripped and split
    data,        \* the non-blank lines (main, lines 82-87)
    idx,         \* index of the next line of data to read (0-based)
    budget,      \* main's budget
    P,           \* main's P
    ci,          \* iterations done of "for _ in range(P)"
    inventory,   \* dict component_id -> Component
    K,           \* main's K
    kj,          \* iterations done of "for _ in range(K)"
    kits,        \* list of 6-tuples
    ki,          \* kits already evaluated by "for kit in kits"
    best_score,
    best_kit,
    output,      \* <<>> until printed, then <<score, kit>>
    pc           \* position in main; "done" after the result is printed,
                 \* "error" after an uncaught exception

vars == <<stdin, data, idx, budget, P, ci, inventory, K, kj, kits, ki,
          best_score, best_kit, output, pc>>

\* ------------------------------------------------------------------ tokens

NONE == <<"N", "O", "N", "E">>
CPU == <<"C", "P", "U">>
Motherboard == <<"M", "o", "t", "h", "e", "r", "b", "o", "a", "r", "d">>
GPU == <<"G", "P", "U">>
RAM == <<"R", "A", "M">>
PSU == <<"P", "S", "U">>

\* The decimal digits int() accepts: every Unicode character of category Nd
\* (Unicode 14.0), as runs of ten from the zero of each script.
DigitRuns ==
    << <<"0", "1", "2", "3", "4", "5", "6", "7", "8", "9">>,
       <<"U+0660", "U+0661", "U+0662", "U+0663", "U+0664", "U+0665", "U+0666", "U+0667", "U+0668", "U+0669">>,
       <<"U+06F0", "U+06F1", "U+06F2", "U+06F3", "U+06F4", "U+06F5", "U+06F6", "U+06F7", "U+06F8", "U+06F9">>,
       <<"U+07C0", "U+07C1", "U+07C2", "U+07C3", "U+07C4", "U+07C5", "U+07C6", "U+07C7", "U+07C8", "U+07C9">>,
       <<"U+0966", "U+0967", "U+0968", "U+0969", "U+096A", "U+096B", "U+096C", "U+096D", "U+096E", "U+096F">>,
       <<"U+09E6", "U+09E7", "U+09E8", "U+09E9", "U+09EA", "U+09EB", "U+09EC", "U+09ED", "U+09EE", "U+09EF">>,
       <<"U+0A66", "U+0A67", "U+0A68", "U+0A69", "U+0A6A", "U+0A6B", "U+0A6C", "U+0A6D", "U+0A6E", "U+0A6F">>,
       <<"U+0AE6", "U+0AE7", "U+0AE8", "U+0AE9", "U+0AEA", "U+0AEB", "U+0AEC", "U+0AED", "U+0AEE", "U+0AEF">>,
       <<"U+0B66", "U+0B67", "U+0B68", "U+0B69", "U+0B6A", "U+0B6B", "U+0B6C", "U+0B6D", "U+0B6E", "U+0B6F">>,
       <<"U+0BE6", "U+0BE7", "U+0BE8", "U+0BE9", "U+0BEA", "U+0BEB", "U+0BEC", "U+0BED", "U+0BEE", "U+0BEF">>,
       <<"U+0C66", "U+0C67", "U+0C68", "U+0C69", "U+0C6A", "U+0C6B", "U+0C6C", "U+0C6D", "U+0C6E", "U+0C6F">>,
       <<"U+0CE6", "U+0CE7", "U+0CE8", "U+0CE9", "U+0CEA", "U+0CEB", "U+0CEC", "U+0CED", "U+0CEE", "U+0CEF">>,
       <<"U+0D66", "U+0D67", "U+0D68", "U+0D69", "U+0D6A", "U+0D6B", "U+0D6C", "U+0D6D", "U+0D6E", "U+0D6F">>,
       <<"U+0DE6", "U+0DE7", "U+0DE8", "U+0DE9", "U+0DEA", "U+0DEB", "U+0DEC", "U+0DED", "U+0DEE", "U+0DEF">>,
       <<"U+0E50", "U+0E51", "U+0E52", "U+0E53", "U+0E54", "U+0E55", "U+0E56", "U+0E57", "U+0E58", "U+0E59">>,
       <<"U+0ED0", "U+0ED1", "U+0ED2", "U+0ED3", "U+0ED4", "U+0ED5", "U+0ED6", "U+0ED7", "U+0ED8", "U+0ED9">>,
       <<"U+0F20", "U+0F21", "U+0F22", "U+0F23", "U+0F24", "U+0F25", "U+0F26", "U+0F27", "U+0F28", "U+0F29">>,
       <<"U+1040", "U+1041", "U+1042", "U+1043", "U+1044", "U+1045", "U+1046", "U+1047", "U+1048", "U+1049">>,
       <<"U+1090", "U+1091", "U+1092", "U+1093", "U+1094", "U+1095", "U+1096", "U+1097", "U+1098", "U+1099">>,
       <<"U+17E0", "U+17E1", "U+17E2", "U+17E3", "U+17E4", "U+17E5", "U+17E6", "U+17E7", "U+17E8", "U+17E9">>,
       <<"U+1810", "U+1811", "U+1812", "U+1813", "U+1814", "U+1815", "U+1816", "U+1817", "U+1818", "U+1819">>,
       <<"U+1946", "U+1947", "U+1948", "U+1949", "U+194A", "U+194B", "U+194C", "U+194D", "U+194E", "U+194F">>,
       <<"U+19D0", "U+19D1", "U+19D2", "U+19D3", "U+19D4", "U+19D5", "U+19D6", "U+19D7", "U+19D8", "U+19D9">>,
       <<"U+1A80", "U+1A81", "U+1A82", "U+1A83", "U+1A84", "U+1A85", "U+1A86", "U+1A87", "U+1A88", "U+1A89">>,
       <<"U+1A90", "U+1A91", "U+1A92", "U+1A93", "U+1A94", "U+1A95", "U+1A96", "U+1A97", "U+1A98", "U+1A99">>,
       <<"U+1B50", "U+1B51", "U+1B52", "U+1B53", "U+1B54", "U+1B55", "U+1B56", "U+1B57", "U+1B58", "U+1B59">>,
       <<"U+1BB0", "U+1BB1", "U+1BB2", "U+1BB3", "U+1BB4", "U+1BB5", "U+1BB6", "U+1BB7", "U+1BB8", "U+1BB9">>,
       <<"U+1C40", "U+1C41", "U+1C42", "U+1C43", "U+1C44", "U+1C45", "U+1C46", "U+1C47", "U+1C48", "U+1C49">>,
       <<"U+1C50", "U+1C51", "U+1C52", "U+1C53", "U+1C54", "U+1C55", "U+1C56", "U+1C57", "U+1C58", "U+1C59">>,
       <<"U+A620", "U+A621", "U+A622", "U+A623", "U+A624", "U+A625", "U+A626", "U+A627", "U+A628", "U+A629">>,
       <<"U+A8D0", "U+A8D1", "U+A8D2", "U+A8D3", "U+A8D4", "U+A8D5", "U+A8D6", "U+A8D7", "U+A8D8", "U+A8D9">>,
       <<"U+A900", "U+A901", "U+A902", "U+A903", "U+A904", "U+A905", "U+A906", "U+A907", "U+A908", "U+A909">>,
       <<"U+A9D0", "U+A9D1", "U+A9D2", "U+A9D3", "U+A9D4", "U+A9D5", "U+A9D6", "U+A9D7", "U+A9D8", "U+A9D9">>,
       <<"U+A9F0", "U+A9F1", "U+A9F2", "U+A9F3", "U+A9F4", "U+A9F5", "U+A9F6", "U+A9F7", "U+A9F8", "U+A9F9">>,
       <<"U+AA50", "U+AA51", "U+AA52", "U+AA53", "U+AA54", "U+AA55", "U+AA56", "U+AA57", "U+AA58", "U+AA59">>,
       <<"U+ABF0", "U+ABF1", "U+ABF2", "U+ABF3", "U+ABF4", "U+ABF5", "U+ABF6", "U+ABF7", "U+ABF8", "U+ABF9">>,
       <<"U+FF10", "U+FF11", "U+FF12", "U+FF13", "U+FF14", "U+FF15", "U+FF16", "U+FF17", "U+FF18", "U+FF19">>,
       <<"U+104A0", "U+104A1", "U+104A2", "U+104A3", "U+104A4", "U+104A5", "U+104A6", "U+104A7", "U+104A8", "U+104A9">>,
       <<"U+10D30", "U+10D31", "U+10D32", "U+10D33", "U+10D34", "U+10D35", "U+10D36", "U+10D37", "U+10D38", "U+10D39">>,
       <<"U+11066", "U+11067", "U+11068", "U+11069", "U+1106A", "U+1106B", "U+1106C", "U+1106D", "U+1106E", "U+1106F">>,
       <<"U+110F0", "U+110F1", "U+110F2", "U+110F3", "U+110F4", "U+110F5", "U+110F6", "U+110F7", "U+110F8", "U+110F9">>,
       <<"U+11136", "U+11137", "U+11138", "U+11139", "U+1113A", "U+1113B", "U+1113C", "U+1113D", "U+1113E", "U+1113F">>,
       <<"U+111D0", "U+111D1", "U+111D2", "U+111D3", "U+111D4", "U+111D5", "U+111D6", "U+111D7", "U+111D8", "U+111D9">>,
       <<"U+112F0", "U+112F1", "U+112F2", "U+112F3", "U+112F4", "U+112F5", "U+112F6", "U+112F7", "U+112F8", "U+112F9">>,
       <<"U+11450", "U+11451", "U+11452", "U+11453", "U+11454", "U+11455", "U+11456", "U+11457", "U+11458", "U+11459">>,
       <<"U+114D0", "U+114D1", "U+114D2", "U+114D3", "U+114D4", "U+114D5", "U+114D6", "U+114D7", "U+114D8", "U+114D9">>,
       <<"U+11650", "U+11651", "U+11652", "U+11653", "U+11654", "U+11655", "U+11656", "U+11657", "U+11658", "U+11659">>,
       <<"U+116C0", "U+116C1", "U+116C2", "U+116C3", "U+116C4", "U+116C5", "U+116C6", "U+116C7", "U+116C8", "U+116C9">>,
       <<"U+11730", "U+11731", "U+11732", "U+11733", "U+11734", "U+11735", "U+11736", "U+11737", "U+11738", "U+11739">>,
       <<"U+118E0", "U+118E1", "U+118E2", "U+118E3", "U+118E4", "U+118E5", "U+118E6", "U+118E7", "U+118E8", "U+118E9">>,
       <<"U+11950", "U+11951", "U+11952", "U+11953", "U+11954", "U+11955", "U+11956", "U+11957", "U+11958", "U+11959">>,
       <<"U+11C50", "U+11C51", "U+11C52", "U+11C53", "U+11C54", "U+11C55", "U+11C56", "U+11C57", "U+11C58", "U+11C59">>,
       <<"U+11D50", "U+11D51", "U+11D52", "U+11D53", "U+11D54", "U+11D55", "U+11D56", "U+11D57", "U+11D58", "U+11D59">>,
       <<"U+11DA0", "U+11DA1", "U+11DA2", "U+11DA3", "U+11DA4", "U+11DA5", "U+11DA6", "U+11DA7", "U+11DA8", "U+11DA9">>,
       <<"U+16A60", "U+16A61", "U+16A62", "U+16A63", "U+16A64", "U+16A65", "U+16A66", "U+16A67", "U+16A68", "U+16A69">>,
       <<"U+16AC0", "U+16AC1", "U+16AC2", "U+16AC3", "U+16AC4", "U+16AC5", "U+16AC6", "U+16AC7", "U+16AC8", "U+16AC9">>,
       <<"U+16B50", "U+16B51", "U+16B52", "U+16B53", "U+16B54", "U+16B55", "U+16B56", "U+16B57", "U+16B58", "U+16B59">>,
       <<"U+1D7CE", "U+1D7CF", "U+1D7D0", "U+1D7D1", "U+1D7D2", "U+1D7D3", "U+1D7D4", "U+1D7D5", "U+1D7D6", "U+1D7D7">>,
       <<"U+1D7D8", "U+1D7D9", "U+1D7DA", "U+1D7DB", "U+1D7DC", "U+1D7DD", "U+1D7DE", "U+1D7DF", "U+1D7E0", "U+1D7E1">>,
       <<"U+1D7E2", "U+1D7E3", "U+1D7E4", "U+1D7E5", "U+1D7E6", "U+1D7E7", "U+1D7E8", "U+1D7E9", "U+1D7EA", "U+1D7EB">>,
       <<"U+1D7EC", "U+1D7ED", "U+1D7EE", "U+1D7EF", "U+1D7F0", "U+1D7F1", "U+1D7F2", "U+1D7F3", "U+1D7F4", "U+1D7F5">>,
       <<"U+1D7F6", "U+1D7F7", "U+1D7F8", "U+1D7F9", "U+1D7FA", "U+1D7FB", "U+1D7FC", "U+1D7FD", "U+1D7FE", "U+1D7FF">>,
       <<"U+1E140", "U+1E141", "U+1E142", "U+1E143", "U+1E144", "U+1E145", "U+1E146", "U+1E147", "U+1E148", "U+1E149">>,
       <<"U+1E2F0", "U+1E2F1", "U+1E2F2", "U+1E2F3", "U+1E2F4", "U+1E2F5", "U+1E2F6", "U+1E2F7", "U+1E2F8", "U+1E2F9">>,
       <<"U+1E950", "U+1E951", "U+1E952", "U+1E953", "U+1E954", "U+1E955", "U+1E956", "U+1E957", "U+1E958", "U+1E959">>,
       <<"U+1FBF0", "U+1FBF1", "U+1FBF2", "U+1FBF3", "U+1FBF4", "U+1FBF5", "U+1FBF6", "U+1FBF7", "U+1FBF8", "U+1FBF9">> >>

DigitChars == UNION {{DigitRuns[r][k] : k \in 1..10} : r \in 1..Len(DigitRuns)}

\* The value int() gives a decimal digit.
DigitVal ==
    [c \in DigitChars |->
        CHOOSE v \in 0..9 : \E r \in 1..Len(DigitRuns) : DigitRuns[r][v + 1] = c]

IsDigit(c) == c \in DOMAIN DigitVal

\* sys.int_info.default_max_str_digits: int() refuses a literal with more
\* digits than this.
MaxStrDigits == 4300

\* The number of digits of a literal, underscores not counted.
DigitCount(s) == Cardinality({i \in 1..Len(s) : s[i] # "_"})

\* The digits-and-underscores part of an integer literal: digits, with single
\* underscores allowed between two digits, MaxStrDigits digits at most.
DigitsOk(s) ==
    /\ Len(s) > 0
    /\ IsDigit(s[1])
    /\ IsDigit(s[Len(s)])
    /\ \A i \in 1..Len(s) :
          \/ IsDigit(s[i])
          \/ s[i] = "_" /\ i > 1 /\ i < Len(s) /\ IsDigit(s[i - 1]) /\ IsDigit(s[i + 1])
    /\ ~(DigitCount(s) > MaxStrDigits)

NotUnderscore(c) == c # "_"

\* The number that digits lo .. hi of d spell, most significant first.
RECURSIVE PositionalValue(_, _, _)
PositionalValue(d, lo, hi) ==
    IF lo > hi THEN 0
    ELSE IF lo = hi THEN DigitVal[d[lo]]
    ELSE LET mid == (lo + hi) \div 2
             left == PositionalValue(d, lo, mid)
             right == PositionalValue(d, mid + 1, hi)
         IN  IF left = 0 THEN right ELSE left * 10 ^ (hi - mid) + right

\* The value of a literal that DigitsOk accepts: its digits, underscores
\* left out, read in base 10.
DigitsValue(s) ==
    PositionalValue(SelectSeq(s, NotUnderscore), 1, DigitCount(s))

\* Python's int(x) on a whitespace-free string: [ok |-> FALSE] is ValueError.
int(x) ==
    LET signed == Len(x) > 0 /\ x[1] \in {"+", "-"}
        body == IF signed THEN Tail(x) ELSE x
    IN  IF DigitsOk(body)
        THEN [ok |-> TRUE,
              val |-> IF signed /\ x[1] = "-" THEN 0 - DigitsValue(body)
                      ELSE DigitsValue(body)]
        ELSE [ok |-> FALSE, val |-> 0]

\* safe_int returns None instead of raising.
safe_int(x) == int(x)

\* ------------------------------------------------------- Component, PCBuild

Component(component_id, ctype, performance_score, cost, spec_1, spec_2) ==
    [id |-> component_id, type |-> ctype, performance |-> performance_score,
     cost |-> cost, spec1 |-> spec_1, spec2 |-> spec_2]

REQUIRED_TYPES == {"CPU", "Motherboard", "GPU", "RAM", "PSU"}

all_types_present(components_by_type) ==
    DOMAIN components_by_type = REQUIRED_TYPES

total_cost(components_by_type) ==
    components_by_type.CPU.cost + components_by_type.Motherboard.cost
    + components_by_type.GPU.cost + components_by_type.RAM.cost
    + components_by_type.PSU.cost

\* A score that sums the costs instead of the performances.
total_performance_OfCost(components_by_type) ==
    components_by_type.CPU.cost + components_by_type.Motherboard.cost
    + components_by_type.GPU.cost + components_by_type.RAM.cost
    + components_by_type.PSU.cost

total_performance(components_by_type) ==
    components_by_type.CPU.performance + components_by_type.Motherboard.performance
    + components_by_type.GPU.performance + components_by_type.RAM.performance
    + components_by_type.PSU.performance

\* The safety margin of "psu.wattage >= cpu.TDP + gpu.TDP + 50".
PowerMargin == 50

\* A comparison that also rejects a PSU of exactly the required wattage.
PowerSufficient_Strict(psu_watt, cpu_tdp, gpu_tdp) ==
    ~(psu_watt <= (cpu_tdp + gpu_tdp + PowerMargin))

\* The final comparison of is_compatible: TRUE when the PSU is sufficient.
PowerSufficient(psu_watt, cpu_tdp, gpu_tdp) ==
    ~(psu_watt < (cpu_tdp + gpu_tdp + PowerMargin))

is_compatible(components_by_type) ==
    IF ~all_types_present(components_by_type) THEN FALSE
    ELSE
    LET cpu == components_by_type.CPU
        mobo == components_by_type.Motherboard
        ram == components_by_type.RAM
        gpu == components_by_type.GPU
        psu == components_by_type.PSU
        cpu_tdp == int(cpu.spec2)
        gpu_tdp == int(gpu.spec2)
        psu_watt == int(psu.spec1)
    IN  IF cpu.spec1 # mobo.spec1 THEN FALSE
        ELSE IF ram.spec1 # mobo.spec2 THEN FALSE
        ELSE IF ~(cpu_tdp.ok /\ gpu_tdp.ok /\ psu_watt.ok) THEN FALSE
        ELSE PowerSufficient(psu_watt.val, cpu_tdp.val, gpu_tdp.val)

\* ------------------------------------------------------------ main: parsing

\* Lines 83-87: blank lines are skipped.
NonBlank(line) == line # <<>>

\* A count parser that reads a non-integer as 0 instead of failing.
FirstInt_OrZero(d, i) ==
    IF int(d[i + 1][1]).ok THEN int(d[i + 1][1]) ELSE [ok |-> TRUE, val |-> 0]

\* int(data[idx].split()[0]) with idx 0-based.
FirstInt(d, i) == int(d[i + 1][1])

\* A row check that forgets the cost.
RowAccepted_PerfOnly(parts) ==
    /\ ~(Len(parts) < 6)
    /\ safe_int(parts[3]).ok

\* Lines 128-141: the row is stored unless it has fewer than six fields or a
\* non-integer performance or cost.
RowAccepted(parts) ==
    /\ ~(Len(parts) < 6)
    /\ ~(~safe_int(parts[3]).ok \/ ~safe_int(parts[4]).ok)

\* An insertion that keeps the entry an identifier already has.
Insert_KeepFirst(inv, comp) ==
    [x \in DOMAIN inv \cup {comp.id} |-> IF x \in DOMAIN inv THEN inv[x] ELSE comp]

\* Line 144: inventory[component_id] = comp.
Insert(inv, comp) ==
    [x \in DOMAIN inv \cup {comp.id} |-> IF x = comp.id THEN comp ELSE inv[x]]

\* Lines 126-144: one component row against the inventory.
InsertRow(inv, parts) ==
    IF RowAccepted(parts)
    THEN Insert(inv, Component(parts[1], parts[2], safe_int(parts[3]).val,
                               safe_int(parts[4]).val, parts[5], parts[6]))
    ELSE inv

\* Lines 160-171: one kit row against the kit list.
AppendKit(ks, parts) ==
    IF Len(parts) < 6 THEN ks ELSE Append(ks, SubSeq(parts, 1, 6))

\* --------------------------------------------------------- main: evaluation

\* Line 181: ids = [cpu_id, mobo_id, gpu_id, ram_id, psu_id].
KitIds(kit) == <<kit[2], kit[3], kit[4], kit[5], kit[6]>>

\* Line 182: all(cid in inventory for cid in ids).
AllInInventory(inv, kit) ==
    \A n \in 1..5 : KitIds(kit)[n] \in DOMAIN inv

\* Lines 186-192.
Comps(inv, kit) ==
    [CPU |-> inv[kit[2]], Motherboard |-> inv[kit[3]], GPU |-> inv[kit[4]],
     RAM |-> inv[kit[5]], PSU |-> inv[kit[6]]]

expected_map ==
    [CPU |-> CPU, Motherboard |-> Motherboard, GPU |-> GPU, RAM |-> RAM, PSU |-> PSU]

\* A type check that leaves out the CPU slot.
TypesOk_NoCpu(comps) ==
    \A t \in DOMAIN comps \ {"CPU"} : ~(comps[t].type # expected_map[t])

\* Lines 195-206: ok_types.
TypesOk(comps) ==
    \A t \in DOMAIN comps : ~(comps[t].type # expected_map[t])

\* A cost check with the comparison reversed.
CostOk_Reversed(cost, b) == ~(cost < b)

\* A cost check that also rejects a cost equal to the budget.
CostOk_Strict(cost, b) == ~(cost >= b)

\* Lines 213-215: TRUE when the kit passes the cost check.
CostOk(cost, b) == ~(cost > b)

\* A comparison that lets an equal score replace the best.
Replaces_AtLeast(score, best) == score >= best

\* Lines 225-227: TRUE when the kit replaces the current best.
Replaces(score, best) == score > best

\* An initial best below every score.
InitialBest_Negative == [score |-> -1, kit |-> NONE]

\* Lines 174-175.
InitialBest == [score |-> 0, kit |-> NONE]

\* Where one iteration of "for kit in kits" ends: the continue it takes, or
\* "scored" when it reaches line 222.
KitOutcome(inv, b, kit) ==
    IF ~AllInInventory(inv, kit) THEN "missing"
    ELSE IF ~TypesOk(Comps(inv, kit)) THEN "type"
    ELSE IF ~CostOk(total_cost(Comps(inv, kit)), b) THEN "cost"
    ELSE IF ~is_compatible(Comps(inv, kit)) THEN "incompatible"
    ELSE "scored"

\* Lines 177-227: one iteration, from the current best to the next.
EvalStep(best, inv, b, kit) ==
    IF KitOutcome(inv, b, kit) = "scored"
       /\ Replaces(total_performance(Comps(inv, kit)), best.score)
    THEN [score |-> total_performance(Comps(inv, kit)), kit |-> kit[1]]
    ELSE best

\* Lines 174-227: the whole loop over a kit list, for a given budget.
RECURSIVE RunKits(_, _, _, _)
RunKits(best, inv, b, ks) ==
    IF ks = <<>> THEN best
    ELSE RunKits(EvalStep(best, inv, b, Head(ks)), inv, b, Tail(ks))

\* ------------------------------------------------------------ main: actions

\* Lines 91-93, 101-103, 108-110, 115-117: print the default result and return.
Abort ==
    /\ output' = <<0, NONE>>
    /\ pc' = "done"

\* Lines 82-93: read stdin, skip blank lines, give up on an empty input.
ReadInput ==
    /\ pc = "start"
    /\ data' = SelectSeq(stdin, NonBlank)
    /\ IF data' = <<>>
       THEN Abort
       ELSE pc' = "budget" /\ UNCHANGED output
    /\ UNCHANGED <<stdin, idx, budget, P, ci, inventory, K, kj, kits, ki,
                   best_score, best_kit>>

\* Lines 95-104.
ReadBudget ==
    /\ pc = "budget"
    /\ IF ~FirstInt(data, idx).ok
       THEN Abort /\ UNCHANGED <<budget, idx>>
       ELSE /\ budget' = FirstInt(data, idx).val
            /\ idx' = idx + 1
            /\ pc' = "P"
            /\ UNCHANGED output
    /\ UNCHANGED <<stdin, data, P, ci, inventory, K, kj, kits, ki,
                   best_score, best_kit>>

\* Lines 106-120.
ReadP ==
    /\ pc = "P"
    /\ IF idx >= Len(data)
       THEN Abort /\ UNCHANGED <<P, idx>>
       ELSE IF ~FirstInt(data, idx).ok
       THEN Abort /\ UNCHANGED <<P, idx>>
       ELSE /\ P' = FirstInt(data, idx).val
            /\ idx' = idx + 1
            /\ pc' = "components"
            /\ UNCHANGED output
    /\ UNCHANGED <<stdin, data, budget, ci, inventory, K, kj, kits, ki,
                   best_score, best_kit>>

\* Lines 122-144: one iteration of "for _ in range(P)".
ReadComponent ==
    /\ pc = "components"
    /\ ci < P
    /\ ~(idx >= Len(data))
    /\ inventory' = InsertRow(inventory, data[idx + 1])
    /\ idx' = idx + 1
    /\ ci' = ci + 1
    /\ UNCHANGED <<stdin, data, budget, P, K, kj, kits, ki,
                   best_score, best_kit, output, pc>>

\* Lines 146-156, once the component loop has ended or broken.
ReadK ==
    /\ pc = "components"
    /\ ~(ci < P /\ ~(idx >= Len(data)))
    /\ IF idx >= Len(data)
       THEN K' = 0 /\ UNCHANGED idx
       ELSE /\ K' = IF FirstInt(data, idx).ok THEN FirstInt(data, idx).val ELSE 0
            /\ idx' = idx + 1
    /\ pc' = "kits"
    /\ UNCHANGED <<stdin, data, budget, P, ci, inventory, kj, kits, ki,
                   best_score, best_kit, output>>

\* Lines 157-171: one iteration of "for _ in range(K)".
ReadKit ==
    /\ pc = "kits"
    /\ kj < K
    /\ ~(idx >= Len(data))
    /\ kits' = AppendKit(kits, data[idx + 1])
    /\ idx' = idx + 1
    /\ kj' = kj + 1
    /\ UNCHANGED <<stdin, data, budget, P, ci, inventory, K, ki,
                   best_score, best_kit, output, pc>>

\* Lines 173-175, once the kit loop has ended or broken.
StartEval ==
    /\ pc = "kits"
    /\ ~(kj < K /\ ~(idx >= Len(data)))
    /\ best_score' = InitialBest.score
    /\ best_kit' = InitialBest.kit
    /\ pc' = "eval"
    /\ UNCHANGED <<stdin, data, idx, budget, P, ci, inventory, K, kj, kits, ki,
                   output>>

\* Lines 177-227: one iteration of "for kit in kits".
EvalKit ==
    /\ pc = "eval"
    /\ ki < Len(kits)
    /\ LET next == EvalStep([score |-> best_score, kit |-> best_kit],
                            inventory, budget, kits[ki + 1])
       IN  best_score' = next.score /\ best_kit' = next.kit
    /\ ki' = ki + 1
    /\ UNCHANGED <<stdin, data, idx, budget, P, ci, inventory, K, kj, kits,
                   output, pc>>

\* The number of characters of str(n) that are digits: the length of the
\* decimal numeral of |n|.
RECURSIVE StrDigits(_)
StrDigits(n) ==
    LET a == IF n < 0 THEN 0 - n ELSE n
    IN  IF a < 10 THEN 1 ELSE 1 + StrDigits(a \div 10)

\* Line 229: the f-string converts best_score to text, and the interpreter
\* raises ValueError for an integer of more than MaxStrDigits digits.
Printable(n) == ~(StrDigits(n) > MaxStrDigits)

\* Lines 229-230.  The ValueError of line 229 is not caught: the process
\* ends with a traceback and nothing on standard output.
PrintResult ==
    /\ pc = "eval"
    /\ ~(ki < Len(kits))
    /\ IF Printable(best_score)
       THEN /\ output' = <<best_score, best_kit>>
            /\ pc' = "done"
       ELSE /\ output' = output
            /\ pc' = "error"
    /\ UNCHANGED <<stdin, data, idx, budget, P, ci, inventory, K, kj, kits, ki,
                   best_score, best_kit>>

Next ==
    \/ ReadInput
    \/ ReadBudget
    \/ ReadP
    \/ ReadComponent
    \/ ReadK
    \/ ReadKit
    \/ StartEval
    \/ EvalKit
    \/ PrintResult

\* ------------------------------------------------------------------- inputs

MaxExtra == 1
MaxKits == 2

DigitChar == <<"0", "1", "2", "3", "4", "5", "6", "7", "8", "9">>

\* The decimal token of n, 0 <= n < 100.
NumTok(n) ==
    IF n < 10 THEN <<DigitChar[n + 1]>>
    ELSE <<DigitChar[(n \div 10) + 1], DigitChar[(n % 10) + 1]>>

c1 == <<"c", "1">>
c2 == <<"c", "2">>
m1 == <<"m", "1">>
g1 == <<"g", "1">>
r1 == <<"r", "1">>
p1 == <<"p", "1">>
p2 == <<"p", "2">>

\* A complete inventory: cost 5, score 1, and a PSU of exactly 5 + 10 + 50.
BaseRows ==
    << <<c1, CPU, <<"1">>, <<"1">>, <<"A">>, <<"5">>>>,
       <<m1, Motherboard, <<"0">>, <<"1">>, <<"A">>, <<"D">>>>,
       <<g1, GPU, <<"0">>, <<"1">>, <<"-">>, <<"1", "0">>>>,
       <<r1, RAM, <<"0">>, <<"1">>, <<"D">>, <<"-">>>>,
       <<p1, PSU, <<"0">>, <<"1">>, <<"6", "5">>, <<"-">>>> >>

\* Rows that follow the base rows: they redeclare a base component, declare a
\* second CPU, or are malformed.
ExtraRows ==
    { <<c1, CPU, <<"0">>, <<"1">>, <<"A">>, <<"5">>>>,
      <<c1, CPU, <<"-", "1">>, <<"1">>, <<"A">>, <<"5">>>>,
      <<c1, CPU, <<"x">>, <<"1">>, <<"B">>, <<"5">>>>,
      <<c1, CPU, <<"9">>>>,
      <<c2, CPU, <<"+", "2">>, <<"1">>, <<"A">>, <<"5">>>>,
      <<c2, <<"c", "p", "u">>, <<"2">>, <<"1">>, <<"A">>, <<"5">>>>,
      <<c2, CPU, <<"2">>, <<"1", ".", "0">>, <<"A">>, <<"5">>>>,
      <<p2, PSU, <<"0">>, <<"1">>, <<"6", "4">>, <<"-">>>> }

\* The token of n characters c.
Repeat(c, n) == [i \in 1..n |-> c]

\* Rows that make one check of is_compatible fail, or spell a number oddly:
\* underscores, digits of other scripts, as many digits as int() takes and
\* one more.
OddRows ==
    { <<c1, CPU, <<"1">>, <<"1">>, <<"a">>, <<"5">>>>,
      <<c1, CPU, <<"1">>, <<"1">>, <<"A">>, <<"x">>>>,
      <<c1, CPU, <<"1">>, <<"-", "2">>, <<"A">>, <<"0", "5">>>>,
      <<g1, GPU, <<"0">>, <<"1">>, <<"-">>, <<"1", "0", "W">>>>,
      <<g1, GPU, <<"0">>, <<"1">>, <<"-">>, <<"-", "5">>>>,
      <<r1, RAM, <<"0">>, <<"1">>, <<"d">>, <<"-">>>>,
      <<p1, PSU, <<"0">>, <<"1">>, <<"6", "5", "W">>, <<"-">>>>,
      <<p1, PSU, <<"0">>, <<"1">>, <<"6", "_", "5">>, <<"-">>, <<"x">>>>,
      <<p1, PSU, <<"0">>, <<"1">>, <<"_", "6", "5">>, <<"-">>>>,
      <<c1, CPU, <<"1">>, <<"1">>, <<"A">>, <<"U+0665">>>>,
      <<c1, CPU, <<"U+0967">>, <<"U+FF11">>, <<"A">>, <<"5">>>>,
      <<p1, PSU, <<"0">>, <<"1">>, <<"U+0666", "5">>, <<"-">>>>,
      <<p1, PSU, <<"0">>, <<"1">>, <<"U+2466", "5">>, <<"-">>>>,
      <<g1, GPU, <<"0">>, <<"1">>, <<"-">>, Repeat("0", MaxStrDigits - 2) \o <<"1", "0">>>>,
      <<g1, GPU, <<"0">>, <<"1">>, <<"-">>, Repeat("0", MaxStrDigits - 1) \o <<"1", "0">>>>,
      <<c1, CPU, Repeat("0", MaxStrDigits) \o <<"1">>, <<"1">>, <<"B">>, <<"5">>>> }

k1 == <<"k", "1">>
k2 == <<"k", "2">>
k3 == <<"k", "3">>
k4 == <<"k", "4">>
k5 == <<"k", "5">>

KitRows ==
    { <<k1, c1, m1, g1, r1, p1>>,
      <<k2, c1, m1, g1, r1, p1>>,
      <<k3, c2, m1, g1, r1, p1>>,
      <<k4, c1, m1, g1, r1, p2>>,
      <<k5, r1, m1, g1, c1, p1>> }

Budgets == {<<"4">>, <<"5">>, <<"6">>}

SeqsUpTo(S, n) == UNION {[1..k -> S] : k \in 0..n}

\* budget, P, the base rows and the extra rows, K and the kit rows.
WellFormedInput(b, extras, kitrows) ==
    << <<b>>, <<NumTok(Len(BaseRows) + Len(extras))>> >> \o BaseRows \o extras
    \o << <<NumTok(Len(kitrows))>> >> \o kitrows

WellFormedInputs ==
    { WellFormedInput(b, extras, kitrows) :
        b \in Budgets, extras \in SeqsUpTo(ExtraRows, MaxExtra),
        kitrows \in SeqsUpTo(KitRows, MaxKits) }

Kit1 == <<k1, c1, m1, g1, r1, p1>>
Kit3 == <<k3, c2, m1, g1, r1, p1>>
Row_c2 == <<c2, CPU, <<"+", "2">>, <<"1">>, <<"A">>, <<"5">>>>

\* Inputs whose sections are absent, blank, miscounted or not numbers.
IrregularInputs ==
    { <<>>,
      << <<>>, <<>> >>,
      << <<<<"x">>>> >>,
      << <<<<"1", ".", "5">>>>, <<<<"5">>>> >> \o BaseRows,
      << <<<<"5">>>> >>,
      << <<>>, <<<<"5">>>>, <<>> >>,
      << <<<<"5">>>>, <<<<"P">>>> >> \o BaseRows,
      << <<<<"5">>, <<"x">>>>, <<>>, <<<<"5">>>> >> \o BaseRows,
      << <<<<"5">>>>, <<<<"5">>>> >> \o BaseRows \o << <<<<"x">>>>, Kit1 >>,
      << <<<<"5">>>>, <<<<"9">>>> >> \o BaseRows,
      << <<<<"5">>>>, <<<<"4">>>> >> \o BaseRows \o << <<<<"1">>>>, Kit1 >>,
      << <<<<"5">>>>, <<<<"-", "1">>>> >> \o BaseRows \o << <<<<"1">>>>, Kit1 >>,
      << <<<<"5">>>>, <<<<"5">>>> >> \o BaseRows \o << Row_c2, <<<<"1">>>>, Kit3 >>,
      << <<<<"5">>>>, <<<<"5">>>> >> \o BaseRows \o << <<<<"3">>>>, Kit1 >>,
      << <<<<"5">>>>, <<<<"5">>>> >> \o BaseRows \o << <<<<"1">>>>, Kit1, Kit3 >>,
      << <<<<"5">>>>, <<<<"5">>>> >> \o BaseRows \o << <<<<"-", "2">>>>, Kit1 >>,
      << <<<<"U+FF15">>>>, <<<<"U+0665">>>> >> \o BaseRows \o << <<<<"U+0661">>>>, Kit1 >>,
      << <<Repeat("0", MaxStrDigits) \o <<"5">>>>, <<<<"5">>>> >> \o BaseRows
         \o << <<<<"1">>>>, Kit1 >>,
      << <<<<"5">>>>, <<Repeat("0", MaxStrDigits) \o <<"5">>>> >> \o BaseRows
         \o << <<<<"1">>>>, Kit1 >>,
      << <<<<"5">>>>, <<<<"5">>>> >> \o BaseRows
         \o << <<Repeat("0", MaxStrDigits) \o <<"1">>>>, Kit1 >> }

\* The base rows, one odd row, and a kit list with a short kit row in it.
OddInputs ==
    { WellFormedInput(<<"5">>, <<row>>, <<Kit1, <<k5, c1, m1>>, Kit1>>) : row \in OddRows }

Inputs == WellFormedInputs \cup IrregularInputs \cup OddInputs

Init ==
    /\ stdin \in Inputs
    /\ data = <<>>
    /\ idx = 0
    /\ budget = 0
    /\ P = 0
    /\ ci = 0
    /\ inventory = [x \in {} |-> x]
    /\ K = 0
    /\ kj = 0
    /\ kits = <<>>
    /\ ki = 0
    /\ best_score = 0
    /\ best_kit = NONE
    /\ output = <<>>
    /\ pc = "start"

Spec == Init /\ [][Next]_vars

\* ------------------------------------------------------------------ claims

\* The evaluation loop has ended: the result was printed, or the conversion
\* of the score to text raised.
Ended == pc \in {"done", "error"}

\* Kit i of the kit list passes resolution, type match, cost and compatibility.
Passes(i) == KitOutcome(inventory, budget, kits[i]) = "scored"

\* The score of kit i, a kit whose five identifiers resolve.
Score(i) == total_performance(Comps(inventory, kits[i]))

\* Kit i passes and no passing kit scores more.
MaxPassing(i) ==
    /\ Passes(i)
    /\ \A j \in 1..Len(kits) : Passes(j) => Score(j) <= Score(i)

\* Kit i is the earliest kit of maximal score, and a later kit ties with it.
FirstOfTie(i) ==
    /\ MaxPassing(i)
    /\ \A j \in 1..(i - 1) : ~MaxPassing(j)
    /\ \E j \in (i + 1)..Len(kits) : MaxPassing(j)

\* The step changes the current best.
BestChanges == best_kit' # best_kit \/ best_score' # best_score

\* C1 as stated: when two or more passing kits share the maximal score, the
\* reported best build is the earliest of them.
C1_AsStated ==
    pc = "done" =>
        \A i \in 1..Len(kits) : FirstOfTie(i) => output[2] = kits[i][1]

\* C1, amended: when two or more passing kits share a maximal score greater
\* than 0, the best build selected is the earliest of them, and it is the one
\* reported when the result is printed; and the current best is replaced only
\* by a kit whose score is strictly greater than the current best score.
C1_TieKeepsEarliest ==
    /\ [](Ended =>
            \A i \in 1..Len(kits) :
                FirstOfTie(i) /\ Score(i) > 0 =>
                    /\ best_score = Score(i)
                    /\ best_kit = kits[i][1]
                    /\ pc = "done" => output = <<Score(i), kits[i][1]>>)
    /\ [][BestChanges =>
            /\ pc = "eval"
            /\ ki < Len(kits)
            /\ AllInInventory(inventory, kits[ki + 1])
            /\ Score(ki + 1) > best_score
            /\ best_score' = Score(ki + 1)
            /\ best_kit' = kits[ki + 1][1]]_vars

C1_Witness ==
    /\ pc = "done"
    /\ \E i \in 1..Len(kits) :
          /\ FirstOfTie(i)
          /\ Score(i) > 0
          /\ output[2] = kits[i][1]
          /\ \E j \in (i + 1)..Len(kits) : MaxPassing(j) /\ kits[j][1] # kits[i][1]

\* C2: if no kit passes all checks, or every kit that passes has a score of
\* exactly 0, the run ends by printing score 0 and best build "NONE".
C2_NoneWithoutPositiveScore ==
    Ended /\ (\A i \in 1..Len(kits) : Passes(i) => Score(i) = 0)
        => pc = "done" /\ output = <<0, NONE>>

C2_Witness ==
    /\ pc = "done"
    /\ \E i \in 1..Len(kits) : Passes(i)
    /\ \A i \in 1..Len(kits) : Passes(i) => Score(i) = 0
    /\ output = <<0, NONE>>

\* The component rows read so far are lines 3 .. ci + 2 of data.
RowsRead == 3..(ci + 2)

\* Line n of data is a component row that was not dropped: six fields or
\* more, integer performance and cost.
WellFormedRow(n) ==
    /\ Len(data[n]) >= 6
    /\ int(data[n][3]).ok
    /\ int(data[n][4]).ok

\* The identifiers declared on a row that was read and not dropped.
DeclaredIds == {data[n][1] : n \in {m \in RowsRead : WellFormedRow(m)}}

\* C3: a kit with an identifier that is not a key of the inventory (never
\* declared, or declared only on dropped rows) never becomes the best build:
\* whenever the best changes, all five identifiers of the kit being evaluated
\* are inventory keys declared on a row that was not dropped.
C3_UnresolvedKitNeverBest ==
    [][BestChanges =>
        /\ pc = "eval"
        /\ ki < Len(kits)
        /\ \A n \in 2..6 :
              kits[ki + 1][n] \in DOMAIN inventory /\ kits[ki + 1][n] \in DeclaredIds]_vars

\* A kit naming an identifier declared only on a dropped row has been
\* evaluated and is not the best.
C3_Witness ==
    /\ pc = "eval"
    /\ ki >= 1
    /\ \E n \in 2..6 :
          /\ kits[ki][n] \notin DOMAIN inventory
          /\ \E m \in RowsRead : data[m][1] = kits[ki][n] /\ ~WellFormedRow(m)
    /\ best_kit # kits[ki][1]

\* The budgets compared by C4 are 0 .. MaxBudget.
MaxBudget == 7

\* The maximum score main finds for the inventory and kit list of this run
\* when the budget is b.
ScoreWithBudget(b) == RunKits(InitialBest, inventory, b, kits).score

\* C4: for the inventory and the kit list of a run and any two budgets
\* b1 <= b2, the maximum score found with b2 is at least the one found with
\* b1; the score this run found, and printed if it printed a result, is the
\* one for its own budget.
C4_BudgetMonotone ==
    Ended =>
        /\ best_score = ScoreWithBudget(budget)
        /\ pc = "done" => output[1] = ScoreWithBudget(budget)
        /\ \A b1, b2 \in 0..MaxBudget :
              b1 <= b2 => ScoreWithBudget(b1) <= ScoreWithBudget(b2)

\* A run whose score is 0 with a smaller budget and positive with its own.
C4_Witness ==
    /\ pc = "done"
    /\ output[1] > 0
    /\ \E b1 \in 0..MaxBudget : b1 < budget /\ ScoreWithBudget(b1) < output[1]

\* The component kit i puts in slot n (2 = CPU .. 6 = PSU) has the category
\* of that slot.
SlotCategory == <<NONE, CPU, Motherboard, GPU, RAM, PSU>>
CategoryMatches(i, n) == inventory[kits[i][n]].type = SlotCategory[n]

\* The summed cost of kit i, a kit whose five identifiers resolve.
Cost(i) ==
    inventory[kits[i][2]].cost + inventory[kits[i][3]].cost
    + inventory[kits[i][4]].cost + inventory[kits[i][5]].cost
    + inventory[kits[i][6]].cost

\* C5: a kit with a component whose category differs from its slot's never
\* becomes the best build: whenever the best changes, each of the five
\* components of the kit being evaluated has exactly its slot's category.
C5_TypeMismatchNeverBest ==
    [][BestChanges =>
        /\ pc = "eval"
        /\ ki < Len(kits)
        /\ AllInInventory(inventory, kits[ki + 1])
        /\ \A n \in 2..6 : CategoryMatches(ki + 1, n)]_vars

\* A kit whose identifiers all resolve, whose cost is within budget and whose
\* score beats the best, but with a category mismatch, has been evaluated and
\* is not the best.
C5_Witness ==
    /\ pc = "eval"
    /\ ki >= 1
    /\ AllInInventory(inventory, kits[ki])
    /\ \E n \in 2..6 : ~CategoryMatches(ki, n)
    /\ Cost(ki) <= budget
    /\ Score(ki) > best_score
    /\ best_kit # kits[ki][1]

\* Kit i passes everything but, possibly, the cost check.
PassesButCost(i) ==
    /\ AllInInventory(inventory, kits[i])
    /\ \A n \in 2..6 : CategoryMatches(i, n)
    /\ is_compatible(Comps(inventory, kits[i]))

\* C6: a kit whose total cost equals the budget is not rejected by the cost
\* step (if it passes the other checks and beats the best it becomes the
\* best), and a kit whose total cost exceeds the budget leaves the best as it
\* was.
C6_BudgetBoundary ==
    [][pc = "eval" /\ ki < Len(kits) /\ AllInInventory(inventory, kits[ki + 1]) =>
        /\ (Cost(ki + 1) = budget /\ PassesButCost(ki + 1) /\ Score(ki + 1) > best_score
               => best_kit' = kits[ki + 1][1] /\ best_score' = Score(ki + 1))
        /\ (Cost(ki + 1) > budget => ~BestChanges)]_vars

\* A kit costing exactly the budget has been evaluated and is the best.
C6_Witness ==
    /\ pc = "eval"
    /\ ki >= 1
    /\ AllInInventory(inventory, kits[ki])
    /\ Cost(ki) = budget
    /\ best_kit = kits[ki][1]
    /\ best_score = Score(ki)
    /\ best_score > 0

\* Socket and memory type of kit i match and its three numeric specs parse.
PowerCheckReached(i) ==
    /\ AllInInventory(inventory, kits[i])
    /\ inventory[kits[i][2]].spec1 = inventory[kits[i][3]].spec1
    /\ inventory[kits[i][5]].spec1 = inventory[kits[i][3]].spec2
    /\ int(inventory[kits[i][2]].spec2).ok
    /\ int(inventory[kits[i][4]].spec2).ok
    /\ int(inventory[kits[i][6]].spec1).ok

CpuTdp(i) == int(inventory[kits[i][2]].spec2).val
GpuTdp(i) == int(inventory[kits[i][4]].spec2).val
PsuWatt(i) == int(inventory[kits[i][6]].spec1).val

\* C7: for a build whose socket and memory-type checks pass and whose three
\* numeric specs parse, is_compatible is true exactly when PSU wattage >=
\* CPU TDP + GPU TDP + 50: true at + 50, false at + 49.
C7_PowerMargin ==
    pc = "eval" =>
        \A i \in 1..Len(kits) :
            PowerCheckReached(i) =>
                (is_compatible(Comps(inventory, kits[i]))
                    <=> PsuWatt(i) >= CpuTdp(i) + GpuTdp(i) + 50)

\* One kit with a PSU of exactly TDPs + 50 that is compatible and one with a
\* PSU of TDPs + 49 that is not.
C7_Witness ==
    /\ pc = "eval"
    /\ \E i \in 1..Len(kits) :
          /\ PowerCheckReached(i)
          /\ PsuWatt(i) = CpuTdp(i) + GpuTdp(i) + 50
          /\ is_compatible(Comps(inventory, kits[i]))
    /\ \E i \in 1..Len(kits) :
          /\ PowerCheckReached(i)
          /\ PsuWatt(i) = CpuTdp(i) + GpuTdp(i) + 49
          /\ ~is_compatible(Comps(inventory, kits[i]))

\* The component that row n of data declares.
ComponentOfRow(n) ==
    [id |-> data[n][1], type |-> data[n][2], performance |-> int(data[n][3]).val,
     cost |-> int(data[n][4]).val, spec1 |-> data[n][5], spec2 |-> data[n][6]]

\* The last row read that carries identifier id, and the last one not dropped.
LastRow(id) ==
    CHOOSE n \in RowsRead :
        data[n][1] = id /\ \A m \in (n + 1)..(ci + 2) : data[m][1] # id
LastWellFormedRow(id) ==
    CHOOSE n \in RowsRead :
        /\ data[n][1] = id /\ WellFormedRow(n)
        /\ \A m \in (n + 1)..(ci + 2) : data[m][1] = id => ~WellFormedRow(m)

\* C8 as stated: for every identifier of the inventory, the entry holds the
\* fields of the last row read that carries that identifier.
C8_AsStated ==
    \A id \in DOMAIN inventory :
        /\ WellFormedRow(LastRow(id))
        /\ inventory[id] = ComponentOfRow(LastRow(id))

\* C8, amended: the inventory's keys are the identifiers of the rows read and
\* not dropped as malformed, and for every such identifier the entry holds
\* the category, performance, cost, spec1 and spec2 of the last row that
\* carries it and was not dropped.
C8_LastWellFormedRowWins ==
    /\ DOMAIN inventory = DeclaredIds
    /\ \A id \in DeclaredIds :
          /\ inventory[id] = ComponentOfRow(LastWellFormedRow(id))
          /\ inventory[id].id = id

\* Two rows that were not dropped declare the same identifier differently
\* and the inventory holds the later one.
C8_Witness ==
    /\ pc = "kits"
    /\ \E m, n \in RowsRead :
          /\ m < n
          /\ WellFormedRow(m) /\ WellFormedRow(n)
          /\ data[m][1] = data[n][1]
          /\ ComponentOfRow(m) # ComponentOfRow(n)
          /\ inventory[data[n][1]] = ComponentOfRow(n)

\* The non-blank lines of the input.
Lines == SelectSeq(stdin, NonBlank)

\* The input is empty, or its budget line or its P line is absent or does
\* not start with an integer.
AbortInput ==
    \/ Lines = <<>>
    \/ ~int(Lines[1][1]).ok
    \/ Len(Lines) < 2
    \/ ~int(Lines[2][1]).ok

\* The K line, the line after the component rows read, is absent or does not
\* start with an integer.
BadKLine == Len(data) < ci + 3 \/ ~int(data[ci + 3][1]).ok

\* C9: on an empty input or an absent or non-integer budget or P line the
\* run ends with score 0 and best build "NONE", no component inserted and no
\* kit evaluated; an absent or non-integer K line does not abort: the run
\* goes on to the kit section with K = 0 and an empty kit list.
C9_AbortToDefault ==
    /\ [](AbortInput =>
            /\ pc \in {"start", "budget", "P", "done"}
            /\ pc # "done" => ENABLED Next
            /\ pc = "done" => output = <<0, NONE>>
            /\ DOMAIN inventory = {}
            /\ kits = <<>>
            /\ ki = 0)
    /\ [](pc \in {"kits", "eval", "done", "error"} /\ ~AbortInput /\ BadKLine =>
            /\ K = 0
            /\ kits = <<>>
            /\ pc # "error"
            /\ pc = "done" => output = <<0, NONE>>)
    /\ [][pc = "components" /\ pc' # pc =>
            pc' = "kits" /\ output' = <<>> /\ inventory' = inventory]_vars

\* A run aborted on a non-integer P line that follows an integer budget.
C9_Witness ==
    /\ pc = "done"
    /\ Len(Lines) >= 2
    /\ int(Lines[1][1]).ok
    /\ ~int(Lines[2][1]).ok
    /\ output = <<0, NONE>>
    /\ DOMAIN inventory = {}

\* The summed performance of kit i, a kit whose five identifiers resolve.
Performance(i) ==
    inventory[kits[i][2]].performance + inventory[kits[i][3]].performance
    + inventory[kits[i][4]].performance + inventory[kits[i][5]].performance
    + inventory[kits[i][6]].performance

\* C10: best_score >= 0 and never decreases; best_score = 0 goes with
\* best_kit "NONE"; best_score > 0 goes with best_kit naming an already
\* processed kit that passed resolution, type match, cost and compatibility
\* and whose summed performance is best_score.
C10_BestInvariant ==
    /\ [](/\ best_score >= 0
          /\ best_score = 0 => best_kit = NONE
          /\ best_score > 0 =>
                \E i \in 1..ki :
                    /\ kits[i][1] = best_kit
                    /\ PassesButCost(i)
                    /\ Cost(i) <= budget
                    /\ Performance(i) = best_score)
    /\ [][best_score' >= best_score]_vars

\* The second kit replaced a first kit of smaller positive score.
C10_Witness ==
    /\ pc = "eval"
    /\ ki = 2
    /\ Passes(1)
    /\ Performance(1) > 0
    /\ Performance(1) < best_score
    /\ best_kit = kits[2][1]
    /\ kits[1][1] # kits[2][1]


====
